---- MODULE Spec2Model ----
(***************************************************************************)
(* Defect lifecycle of the Inspection web application: the defects store   *)
(* (DefectsProvider: reducer state + store operations), the repository and *)
(* sync queue it persists to, and the handlers of the defect detail page.  *)
(***************************************************************************)
EXTENDS Integers, Sequences, FiniteSets, TLC

(* ------------------------------ bounds -------------------------------- *)

\* Number of defect ids createDefect may hand out, seed records included.
MaxDefects == 3

\* Number of operations (store calls / page handlers) in one behaviour.
MaxOps == 2

\* The clock runs from 1 to MaxTime.
MaxTime == 2

\* Number of assets in the registry.
MaxAssets == 1

(* ------------------------------ values -------------------------------- *)

\* closedAt: undefined
NoTime == 0

\* parentDefectId absent
NoId == 0

\* closedBy / closedByName: undefined
Undefined == "undefined"

\* The signed-in user (useAuth): id and "firstName lastName".
UserId == "user-1"

UserName == "John Smith"

Ids == 1..MaxDefects

Statuses == {"Draft", "Open", "Acknowledged", "InProgress", "Deferred", "Closed", "Overdue"}

\* Texts are sequences of tokens, so that template literals are real
\* concatenations and "contains" is a real substring test.
Texts == {<<"seal">>, <<"ok", "seal">>}

\* File lists chosen in a modal or in the upload input.
FileLists == {<<>>, <<"photo">>}

IsPrefix(p, q) == Len(p) <= Len(q) /\ SubSeq(q, 1, Len(p)) = p

Contains(t, sub) ==
    \E i \in 1..(Len(t) - Len(sub) + 1) : SubSeq(t, i, i + Len(sub) - 1) = sub

\* { ...rec, ...updates } : updates is a partial record.
Merge(rec, updates) ==
    [f \in DOMAIN rec |-> IF f \in DOMAIN updates THEN updates[f] ELSE rec[f]]

VARIABLES
    db,         \* repository: defect id -> persisted defect record
    nextId,     \* next id createDefect assigns
    syncQueue,  \* persisted sync queue, oldest first
    state,      \* DefectsState held by the reducer
    now,        \* wall clock
    nOps,       \* operations run so far
    inflight,   \* async calls (page handlers, provider inits) triggered and
                \* not yet completed
    assets,     \* asset registry: asset id -> its two statuses
    bulk,       \* what the last bulk update returned and showed
    correctable,      \* the validity table's auto-corrected pairs (see below)
    correctedIsValid  \* the table reports an auto-corrected pair as isValid

vars == <<db, nextId, syncQueue, state, now, nOps, inflight,
          assets, bulk, correctable, correctedIsValid>>

assetVars == <<assets, bulk, correctable, correctedIsValid>>

defectVars == <<db, nextId, syncQueue, state, now, nOps, inflight>>

(* ---------------------------- repository ------------------------------ *)

\* The store operations are written over a record s of everything a call can
\* touch: s.db, s.nextId, s.syncQueue, s.state, plus s.thrown and s.ret for the
\* way the call ended.

getDefectById(s, id) == IF id \in DOMAIN s.db THEN <<s.db[id]>> ELSE <<>>

\* createDefect: assigns the id (and code), unsafeDoNotUse and history.
createDefect(s, data, unsafe) ==
    LET id == s.nextId
        rec == [id |-> id,
                title |-> data.title,
                severity |-> data.severity,
                assetId |-> data.assetId,
                siteId |-> data.siteId,
                assignedToId |-> data.assignedToId,
                complianceTags |-> data.complianceTags,
                actions |-> data.actions,
                status |-> data.status,
                unsafeDoNotUse |-> unsafe,
                targetRectificationDate |-> data.targetRectificationDate,
                closedAt |-> NoTime,
                closedBy |-> Undefined,
                closedByName |-> Undefined,
                actionTaken |-> <<>>,
                comments |-> data.comments,
                history |-> <<>>,
                attachments |-> data.attachments,
                recurrenceCount |-> 0,
                reopenedCount |-> 0,
                parentDefectId |-> NoId]
    IN [s EXCEPT !.db = [i \in DOMAIN s.db \cup {id} |->
                            IF i = id THEN rec ELSE s.db[i]],
                 !.nextId = id + 1,
                 !.ret = id]

updateDefect(s, id, updates) ==
    [s EXCEPT !.db[id] = Merge(s.db[id], updates)]

deleteDefect(s, id) ==
    [s EXCEPT !.db = [i \in DOMAIN s.db \ {id} |-> s.db[i]]]

addComment(s, id, comment) ==
    [s EXCEPT !.db[id].comments = Append(s.db[id].comments, comment)]

addHistoryEntry(s, id, entry) ==
    [s EXCEPT !.db[id].history = Append(s.db[id].history, entry)]

\* queryDefects with no filter: every record, in id order.
RECURSIVE SeqOfIds(_, _)
SeqOfIds(d, ids) ==
    IF ids = {} THEN <<>>
    ELSE LET m == CHOOSE i \in ids : \A j \in ids : i <= j
         IN <<d[m]>> \o SeqOfIds(d, ids \ {m})

queryDefects(s) == SeqOfIds(s.db, DOMAIN s.db)

\* Full scan. Overdue = not Closed and target date before now.
getDefectSummary(d, t) ==
    [total |-> Cardinality(DOMAIN d),
     open |-> Cardinality({i \in DOMAIN d : d[i].status # "Closed"}),
     overdue |-> Cardinality({i \in DOMAIN d :
                    /\ d[i].status # "Closed"
                    /\ d[i].targetRectificationDate # NoTime
                    /\ d[i].targetRectificationDate < t}),
     unsafe |-> Cardinality({i \in DOMAIN d : d[i].unsafeDoNotUse})]

addToSyncQueue(s, operation, id) ==
    [s EXCEPT !.syncQueue = Append(s.syncQueue, [operation |-> operation, id |-> id])]

\* flushSyncQueue: resolves with the queue emptied, or rejects with the items
\* still pending.
flushSyncQueue(s, flushes) ==
    IF flushes THEN [s EXCEPT !.syncQueue = <<>>] ELSE [s EXCEPT !.thrown = TRUE]

FlushError == "Sync failed"

(* ------------------------------ reducer ------------------------------- *)

SET_ERROR(s, message) == [s EXCEPT !.state.error = message]

SET_DEFECTS(s, defects) == [s EXCEPT !.state.defects = defects]

SET_CURRENT_DEFECT(s, maybe) == [s EXCEPT !.state.currentDefect = maybe]

SET_SUMMARY(s, summary) == [s EXCEPT !.state.summary = summary]

SET_SYNC_QUEUE_COUNT(s, n) == [s EXCEPT !.state.syncQueueCount = n]

ADD_DEFECT(s, d) == [s EXCEPT !.state.defects = Append(s.state.defects, d)]

UPDATE_DEFECT(s, d) ==
    [s EXCEPT !.state.defects =
                 [k \in 1..Len(s.state.defects) |->
                     IF s.state.defects[k].id = d.id THEN d ELSE s.state.defects[k]],
              !.state.currentDefect =
                 IF s.state.currentDefect # <<>> /\ s.state.currentDefect[1].id = d.id
                 THEN <<d>> ELSE s.state.currentDefect]

\* Fault: the current defect is kept when it is the one removed.
REMOVE_DEFECT_KeepCurrent(s, id) ==
    [s EXCEPT !.state.defects =
                 SelectSeq(s.state.defects, LAMBDA d : d.id # id)]

REMOVE_DEFECT(s, id) ==
    [s EXCEPT !.state.defects =
                 SelectSeq(s.state.defects, LAMBDA d : d.id # id),
              !.state.currentDefect =
                 IF s.state.currentDefect # <<>> /\ s.state.currentDefect[1].id = id
                 THEN <<>> ELSE s.state.currentDefect]

(* ------------------------- store operations --------------------------- *)

\* Fault: the error is set and not rethrown.
Throw_Swallowed(s, message) == SET_ERROR(s, message)

\* catch (error) { dispatch SET_ERROR; throw error }
Throw(s, message) == [SET_ERROR(s, message) EXCEPT !.thrown = TRUE]

loadDefects(s) == SET_DEFECTS(s, queryDefects(s))

\* Route ids are defect ids here; the lookup by defect code is left out.
loadDefect(s, id) == SET_CURRENT_DEFECT(s, getDefectById(s, id))

loadSummary(s, t) == SET_SUMMARY(s, getDefectSummary(s.db, t))

refreshSyncQueue(s) == SET_SYNC_QUEUE_COUNT(s, Len(s.syncQueue))

createNewDefect(s, defect, unsafe, t) ==
    LET s1 == createDefect(s, defect, unsafe)
        newDefect == s1.db[s1.ret]
        s2 == ADD_DEFECT(s1, newDefect)
        s3 == addToSyncQueue(s2, "createDefect", newDefect.id)
        s4 == refreshSyncQueue(s3)
    IN loadSummary(s4, t)

\* Fault: the summary is not reloaded after the update.
updateDefectData_NoSummary(s, id, updates, t) ==
    IF id \notin DOMAIN s.db THEN Throw(s, "Defect not found")
    ELSE LET s1 == updateDefect(s, id, updates)
             s2 == UPDATE_DEFECT(s1, s1.db[id])
             s3 == addToSyncQueue(s2, "updateDefect", id)
         IN refreshSyncQueue(s3)

updateDefectData(s, id, updates, t) ==
    IF id \notin DOMAIN s.db THEN Throw(s, "Defect not found")
    ELSE LET s1 == updateDefect(s, id, updates)
             s2 == UPDATE_DEFECT(s1, s1.db[id])
             s3 == addToSyncQueue(s2, "updateDefect", id)
             s4 == refreshSyncQueue(s3)
         IN loadSummary(s4, t)

deleteDefectData(s, id, t) ==
    LET s1 == deleteDefect(s, id)
        s2 == REMOVE_DEFECT(s1, id)
        s3 == addToSyncQueue(s2, "deleteDefect", id)
        s4 == refreshSyncQueue(s3)
    IN loadSummary(s4, t)

\* Fault: the store logs every comment in the history as well.
addDefectComment_WithHistory(s, id, comment) ==
    IF id \notin DOMAIN s.db THEN Throw(s, "Defect not found")
    ELSE LET s1 == addComment(s, id, comment)
             s2 == addHistoryEntry(s1, id, [type |-> "comment", summary |-> comment.text])
             s3 == loadDefect(s2, id)
         IN loadDefects(s3)

addDefectComment(s, id, comment) ==
    IF id \notin DOMAIN s.db THEN Throw(s, "Defect not found")
    ELSE LET s1 == addComment(s, id, comment)
             s2 == loadDefect(s1, id)
         IN loadDefects(s2)

\* Fault: the summary is built from the notes alone.
closeSummary_NoAction(data) == <<"Action: ">> \o <<". ">> \o data.notes

\* `Action: ${data.actionTaken}. ${data.notes}`
closeSummary(data) == <<"Action: ">> \o data.actionTaken \o <<". ">> \o data.notes

\* Fault: the comments are replaced by the close comment instead of extended.
closeUpdates_DropComments(defect, data, userId, userName, t) ==
    [status |-> "Closed",
     closedAt |-> t,
     closedBy |-> userId,
     closedByName |-> userName,
     actionTaken |-> data.actionTaken,
     comments |-> <<[by |-> userId, text |-> closeSummary(data)]>>,
     attachments |-> defect.attachments \o data.attachments,
     unsafeDoNotUse |-> IF data.returnToService = TRUE
                        THEN FALSE ELSE defect.unsafeDoNotUse]

\* Fault: every close clears the unsafe flag.
closeUpdates_AlwaysClears(defect, data, userId, userName, t) ==
    [status |-> "Closed",
     closedAt |-> t,
     closedBy |-> userId,
     closedByName |-> userName,
     actionTaken |-> data.actionTaken,
     comments |-> Append(defect.comments,
                    [by |-> userId, text |-> closeSummary(data)]),
     attachments |-> defect.attachments \o data.attachments,
     unsafeDoNotUse |-> FALSE]

\* The updates closeDefect hands to updateDefectData.
closeUpdates(defect, data, userId, userName, t) ==
    [status |-> "Closed",
     closedAt |-> t,
     closedBy |-> userId,
     closedByName |-> userName,
     actionTaken |-> data.actionTaken,
     comments |-> Append(defect.comments,
                    [by |-> userId, text |-> closeSummary(data)]),
     attachments |-> defect.attachments \o data.attachments,
     unsafeDoNotUse |-> IF data.returnToService = TRUE
                        THEN FALSE ELSE defect.unsafeDoNotUse]

\* Fault: the clearance is never logged.
clearsUnsafe_Never(defect, data) == FALSE

\* if (data.returnToService && defect.unsafeDoNotUse)
clearsUnsafe(defect, data) == data.returnToService /\ defect.unsafeDoNotUse

closeDefect(s, id, data, userId, userName, t) ==
    IF getDefectById(s, id) = <<>> THEN Throw(s, "Defect not found")
    ELSE LET defect == getDefectById(s, id)[1]
             s1 == updateDefectData(s, id,
                      closeUpdates(defect, data, userId, userName, t), t)
             s2 == addHistoryEntry(s1, id,
                      [type |-> "close", summary |-> closeSummary(data)])
             s3 == IF clearsUnsafe(defect, data)
                   THEN addHistoryEntry(s2, id,
                          [type |-> "status_change",
                           summary |-> <<"Asset returned to service - Unsafe flag cleared">>])
                   ELSE s2
             s4 == addToSyncQueue(s3, "closeDefect", id)
         IN refreshSyncQueue(s4)

\* Fault: the new occurrence gets no title.
recurrenceOf_Untitled(defect, data) ==
    [title |-> <<>>,
     severity |-> defect.severity,
     status |-> "Open",
     assetId |-> defect.assetId,
     siteId |-> defect.siteId,
     assignedToId |-> defect.assignedToId,
     complianceTags |-> defect.complianceTags,
     actions |-> defect.actions,
     targetRectificationDate |-> defect.targetRectificationDate,
     attachments |-> data.attachments,
     comments |-> <<>>]

\* What reopenDefect passes to createDefect for a new occurrence.
recurrenceOf(defect, data) ==
    [title |-> defect.title,
     severity |-> defect.severity,
     status |-> "Open",
     assetId |-> defect.assetId,
     siteId |-> defect.siteId,
     assignedToId |-> defect.assignedToId,
     complianceTags |-> defect.complianceTags,
     actions |-> defect.actions,
     targetRectificationDate |-> defect.targetRectificationDate,
     attachments |-> data.attachments,
     comments |-> <<>>]

\* Fault: the new defect is not linked to the parent.
childLink_Unlinked(defect) == [parentDefectId |-> NoId, recurrenceCount |-> 0]

\* Link the new defect to the parent.
childLink(defect) == [parentDefectId |-> defect.id, recurrenceCount |-> 0]

\* Fault: the parent's count is written back unchanged.
parentCount_NoIncrement(defect) == [recurrenceCount |-> defect.recurrenceCount]

\* Update parent defect's recurrence count: (defect.recurrenceCount || 0) + 1
parentCount(defect) == [recurrenceCount |-> defect.recurrenceCount + 1]

\* Fault: the close stamp is left in place.
reopenUpdates_KeepStamp(defect, data) ==
    [status |-> "Open",
     reopenedCount |-> defect.reopenedCount + 1,
     attachments |-> defect.attachments \o data.attachments]

\* The updates of a reopen of the same defect.
reopenUpdates(defect, data) ==
    [status |-> "Open",
     reopenedCount |-> defect.reopenedCount + 1,
     closedAt |-> NoTime,
     closedBy |-> Undefined,
     closedByName |-> Undefined,
     attachments |-> defect.attachments \o data.attachments]

\* Fault: the comment leaves the reason out.
reopenComment_NoReason(data, userId) == [by |-> userId, text |-> <<"Reopened: ">>]

\* The comment of a reopen of the same defect: `Reopened: ${data.reason}`
reopenComment(data, userId) ==
    [by |-> userId, text |-> <<"Reopened: ">> \o data.reason]

reopenDefect(s, id, data, userId, userName, unsafe, t) ==
    IF getDefectById(s, id) = <<>> THEN Throw(s, "Defect not found")
    ELSE LET defect == getDefectById(s, id)[1]
         IN IF data.isNewOccurrence
            THEN LET s1 == createDefect(s, recurrenceOf(defect, data), unsafe)
                     newId == s1.ret
                     s2 == updateDefectData(s1, newId, childLink(defect), t)
                     s3 == updateDefectData(s2, defect.id, parentCount(defect), t)
                 IN [s3 EXCEPT !.ret = newId]
            ELSE LET s1 == updateDefectData(s, id, reopenUpdates(defect, data), t)
                     s2 == addHistoryEntry(s1, id,
                             [type |-> "reopen",
                              summary |-> <<"Defect reopened: ">> \o data.reason])
                     s3 == addDefectComment(s2, id, reopenComment(data, userId))
                     s4 == addToSyncQueue(s3, "reopenDefect", id)
                     s5 == refreshSyncQueue(s4)
                 IN [s5 EXCEPT !.ret = id]

\* Fault: the catch rethrows, as the catch of every other operation does.
sync_Rethrows(s, flushes, t) ==
    LET s1 == flushSyncQueue(s, flushes)
    IN IF s1.thrown THEN Throw(s, FlushError)
       ELSE loadSummary(loadDefects(refreshSyncQueue(s1)), t)

\* flushes: whether flushSyncQueue resolves. The catch sets the error and does
\* not rethrow.
sync(s, flushes, t) ==
    LET s1 == flushSyncQueue(s, flushes)
    IN IF s1.thrown THEN SET_ERROR(s, FlushError)
       ELSE LET s2 == refreshSyncQueue(s1)
                s3 == loadDefects(s2)
            IN loadSummary(s3, t)

(* ------------------------------ inputs -------------------------------- *)

\* One shape for the data argument of closeDefect and reopenDefect and for
\* the edit form.
NoData ==
    [actionTaken |-> <<>>, notes |-> <<>>, reason |-> <<>>, attachments |-> <<>>,
     returnToService |-> FALSE, isNewOccurrence |-> FALSE, status |-> "unset",
     unsafeDoNotUse |-> FALSE]

Notes == {<<"tested">>}

Reasons == {<<"leak">>}

CloseData ==
    {[NoData EXCEPT !.actionTaken = a, !.notes = n, !.attachments = <<"photo">>,
                    !.returnToService = r] :
        a \in Texts, n \in Notes, r \in BOOLEAN}

ReopenData ==
    {[NoData EXCEPT !.reason = x, !.attachments = f, !.isNewOccurrence = b] :
        x \in Reasons, f \in FileLists, b \in BOOLEAN}

\* What the create form submits (createNewDefect's argument).
NewDefects ==
    {[title |-> <<"Worn sling">>, severity |-> "Low", assetId |-> "AST-000009",
      siteId |-> "5", assignedToId |-> "user-2", complianceTags |-> <<"LOLER">>,
      actions |-> <<"Replace sling">>,
      status |-> st, targetRectificationDate |-> NoTime, attachments |-> <<>>,
      comments |-> <<>>] : st \in {"Draft"}}

\* The statuses the edit form is tried with. No code tells Draft, Acknowledged,
\* Deferred and Overdue from InProgress.
EditStatuses == {"Open", "InProgress", "Closed"}

\* The edit form: unsafeDoNotUse always present, status only when the select
\* was changed.
EditForms ==
    {[NoData EXCEPT !.status = st, !.unsafeDoNotUse = u] :
        st \in EditStatuses \cup {"unset"}, u \in BOOLEAN}

editUpdates(form) ==
    IF form.status = "unset"
    THEN [unsafeDoNotUse |-> form.unsafeDoNotUse]
    ELSE [unsafeDoNotUse |-> form.unsafeDoNotUse, status |-> form.status]

(* --------------------------- initial state ---------------------------- *)

\* Two of the records of seedData: all are Open with a target date, the second
\* is the one marked unsafeDoNotUse.
seedData ==
    <<[title |-> <<"Hydraulic leak at lift ram (minor seep)">>,
       severity |-> "Medium", assetId |-> "AST-000001", siteId |-> "1",
       assignedToId |-> Undefined, complianceTags |-> <<>>, actions |-> <<>>,
       status |-> "Open", targetRectificationDate |-> 1, attachments |-> <<>>,
       comments |-> <<>>, unsafeDoNotUse |-> FALSE],
      [title |-> <<"Safety-critical: E-Stop not latching on control panel">>,
       severity |-> "High", assetId |-> "AST-000147", siteId |-> "2",
       assignedToId |-> Undefined, complianceTags |-> <<>>, actions |-> <<>>,
       status |-> "Open", targetRectificationDate |-> 1, attachments |-> <<>>,
       comments |-> <<>>, unsafeDoNotUse |-> TRUE]>>

\* for (const data of seedData) await createDefect(data)
RECURSIVE seedDefects(_, _)
seedDefects(s, k) ==
    IF k > Len(seedData) THEN s
    ELSE seedDefects(createDefect(s, seedData[k], seedData[k].unsafeDoNotUse), k + 1)

\* The provider's reducer state at construction, over an empty database.
Fresh ==
    [db |-> <<>>, nextId |-> 1, syncQueue |-> <<>>,
     state |-> [defects |-> <<>>,
                currentDefect |-> <<>>,
                summary |-> [total |-> 0, open |-> 0, overdue |-> 0, unsafe |-> 0],
                syncQueueCount |-> 0,
                error |-> "null"],
     thrown |-> FALSE, ret |-> NoId]

\* init(): seedDefects, loadDefects, loadSummary, (loadSettings,) refreshSyncQueue.
init(s, t) == refreshSyncQueue(loadSummary(loadDefects(seedDefects(s, 1)), t))

InitDefects ==
    /\ now = 1
    /\ LET s == init(Fresh, now)
       IN /\ db = s.db
          /\ nextId = s.nextId
          /\ syncQueue = s.syncQueue
          /\ state = s.state
    /\ nOps = 0
    /\ inflight = <<>>

\* The registry as the assets page finds it: every asset in use and active.
mockAssets ==
    [i \in 1..MaxAssets |-> [operationalStatus |-> "InUse", lifecycleStatus |-> "Active"]]

\* Nothing returned or shown yet.
NoBulk ==
    [called |-> FALSE, ids |-> <<>>, updates |-> <<>>, updated |-> 0,
     errors |-> <<>>, thrown |-> FALSE, toast |-> "none"]

Init ==
    /\ InitDefects
    /\ assets = mockAssets
    /\ bulk = NoBulk
    /\ correctable = {}
    /\ correctedIsValid = FALSE

\* The record a store operation starts from.
Start ==
    [db |-> db, nextId |-> nextId, syncQueue |-> syncQueue, state |-> state,
     thrown |-> FALSE, ret |-> NoId]

\* An operation ended in s.
Commit(s) ==
    /\ db' = s.db
    /\ nextId' = s.nextId
    /\ syncQueue' = s.syncQueue
    /\ state' = s.state
    /\ nOps' = nOps + 1
    /\ UNCHANGED now
    /\ UNCHANGED assetVars

CanStart == nOps < MaxOps

(* ------------------------- store-level actions ------------------------ *)

Tick ==
    /\ now < MaxTime
    /\ now' = now + 1
    /\ UNCHANGED <<db, nextId, syncQueue, state, nOps, inflight>>
    /\ UNCHANGED assetVars

CreateNewDefect ==
    /\ CanStart
    /\ nextId <= MaxDefects
    /\ \E defect \in NewDefects, unsafe \in BOOLEAN :
          Commit(createNewDefect(Start, defect, unsafe, now))
    /\ UNCHANGED inflight

CloseDefect ==
    /\ CanStart
    /\ \E id \in Ids, data \in CloseData :
          Commit(closeDefect(Start, id, data, UserId, UserName, now))
    /\ UNCHANGED inflight

ReopenDefect ==
    /\ CanStart
    /\ \E id \in Ids, data \in ReopenData, unsafe \in BOOLEAN :
          /\ data.isNewOccurrence /\ id \in DOMAIN db => nextId <= MaxDefects
          /\ ~data.isNewOccurrence => ~unsafe
          /\ Commit(reopenDefect(Start, id, data, UserId, UserName, unsafe, now))
    /\ UNCHANGED inflight

Sync ==
    /\ CanStart
    /\ \E flushes \in BOOLEAN : Commit(sync(Start, flushes, now))
    /\ UNCHANGED inflight

(* --------------------------- detail page ------------------------------ *)

\* The handlers close over the render's currentDefect: cur.

handleSave(s, cur, form, t) ==
    LET s1 == updateDefectData(s, cur.id, editUpdates(form), t)
    IN IF s1.thrown THEN [s1 EXCEPT !.thrown = FALSE]   \* alert(...)
       ELSE loadDefect(s1, cur.id)

handleCloseDefect(s, cur, data, t) ==
    LET s1 == closeDefect(s, cur.id, data, UserId, UserName, t)
    IN IF s1.thrown THEN s1
       ELSE loadDefects(loadDefect(s1, cur.id))

\* After a new occurrence the page navigates to it and mounts for its id.
handleReopenDefect(s, cur, data, unsafe, t) ==
    LET s1 == reopenDefect(s, cur.id, data, UserId, UserName, unsafe, t)
    IN IF s1.thrown THEN s1
       ELSE IF data.isNewOccurrence
            THEN loadDefect(s1, s1.ret)
            ELSE loadDefects(loadDefect(s1, cur.id))

handleAddComment(s, cur, text) ==
    LET s1 == addDefectComment(s, cur.id, [by |-> UserId, text |-> text])
    IN IF s1.thrown THEN [s1 EXCEPT !.thrown = FALSE]   \* alert(...)
       ELSE loadDefect(s1, cur.id)

handleDelete(s, cur, t) == deleteDefectData(s, cur.id, t)

handleFileUpload(s, cur, files, t) ==
    LET s1 == updateDefectData(s, cur.id,
                 [attachments |-> cur.attachments \o files], t)
    IN IF s1.thrown THEN [s1 EXCEPT !.thrown = FALSE]   \* alert(...)
       ELSE loadDefect(s1, cur.id)

\* onReopen of the "Add Progress Update" modal.
addProgressUpdate(s, cur, data, unsafe, t) ==
    IF data.isNewOccurrence THEN handleReopenDefect(s, cur, data, unsafe, t)
    ELSE LET s1 == IF data.attachments # <<>>
                   THEN updateDefectData(s, cur.id,
                           [attachments |-> cur.attachments \o data.attachments], t)
                   ELSE s
             s2 == IF s1.thrown THEN s1
                   ELSE addDefectComment(s1, cur.id,
                           [by |-> UserId, text |-> <<"Update: ">> \o data.reason])
         IN IF s2.thrown THEN s2
            ELSE IF cur.status = "Closed"
                 THEN handleReopenDefect(s2, cur,
                         [data EXCEPT !.isNewOccurrence = FALSE], unsafe, t)
                 ELSE loadDefect(s2, cur.id)

\* The detail page mounted for route id: its effect ran loadDefect(id), and the
\* render the handlers close over holds that record as currentDefect.
Mounted(id) == loadDefect(Start, id)

Cur(id) == Mounted(id).state.currentDefect[1]

HandleSave ==
    /\ CanStart
    /\ \E id \in DOMAIN db, form \in EditForms :
          Commit(handleSave(Mounted(id), Cur(id), form, now))
    /\ UNCHANGED inflight

\* canClose: the Close button shows only while the defect is not Closed.
HandleCloseDefect ==
    /\ CanStart
    /\ \E id \in DOMAIN db, data \in CloseData :
          /\ Cur(id).status # "Closed"
          /\ Commit(handleCloseDefect(Mounted(id), Cur(id), data, now))
    /\ UNCHANGED inflight

\* canReopen: the Reopen button shows only while the defect is Closed.
HandleReopenDefect ==
    /\ CanStart
    /\ \E id \in DOMAIN db, data \in ReopenData, unsafe \in BOOLEAN :
          /\ Cur(id).status = "Closed"
          /\ data.isNewOccurrence => nextId <= MaxDefects
          /\ ~data.isNewOccurrence => ~unsafe
          /\ Commit(handleReopenDefect(Mounted(id), Cur(id), data, unsafe, now))
    /\ UNCHANGED inflight

HandleAddComment ==
    /\ CanStart
    /\ \E id \in DOMAIN db, text \in Reasons :
          Commit(handleAddComment(Mounted(id), Cur(id), text))
    /\ UNCHANGED inflight

HandleDelete ==
    /\ CanStart
    /\ \E id \in DOMAIN db :
          Commit(handleDelete(Mounted(id), Cur(id), now))
    /\ UNCHANGED inflight

HandleFileUpload ==
    /\ CanStart
    /\ \E id \in DOMAIN db, files \in FileLists \ {<<>>} :
          Commit(handleFileUpload(Mounted(id), Cur(id), files, now))
    /\ UNCHANGED inflight

AddProgressUpdate ==
    /\ CanStart
    /\ \E id \in DOMAIN db, data \in ReopenData, unsafe \in BOOLEAN :
          /\ data.isNewOccurrence => nextId <= MaxDefects
          /\ ~data.isNewOccurrence => ~unsafe
          /\ Commit(addProgressUpdate(Mounted(id), Cur(id), data, unsafe, now))
    /\ UNCHANGED inflight

Next ==
    \/ Tick
    \/ CreateNewDefect
    \/ CloseDefect
    \/ ReopenDefect
    \/ Sync
    \/ HandleSave
    \/ HandleCloseDefect
    \/ HandleReopenDefect
    \/ HandleAddComment
    \/ HandleDelete
    \/ HandleFileUpload
    \/ AddProgressUpdate

Spec == Init /\ [][Next]_vars

(* ------------------- detail page, handlers in flight ------------------- *)

\* The handlers are async functions and nothing in the page disables a button
\* while one runs. A handler is triggered (it takes the render's currentDefect
\* and the form's input with it) and completes later; here all it does is
\* applied when it completes.

\* Handlers that may be in flight together.
MaxInflight == 2

\* The handlers started from a modal, which stays open until they return.
ModalHandlers == {"handleCloseDefect", "handleReopenDefect", "addProgressUpdate"}

InFlight(handlers) == \E k \in DOMAIN inflight : inflight[k].handler \in handlers

\* New occurrences in flight: each will take an id.
Pending ==
    Cardinality({k \in DOMAIN inflight : inflight[k].data.isNewOccurrence})

\* isEditing: set by Edit, cleared when handleSave has completed.
isEditing == InFlight({"handleSave"})

CanTrigger ==
    /\ nOps < MaxOps
    /\ Len(inflight) < MaxInflight
    /\ ~InFlight(ModalHandlers)

Trigger(handler, id, data, unsafe) ==
    /\ inflight' = Append(inflight,
          [handler |-> handler, id |-> id, cur |-> Cur(id), data |-> data,
           unsafe |-> unsafe])
    /\ nOps' = nOps + 1
    /\ UNCHANGED <<db, nextId, syncQueue, state, now>>
    /\ UNCHANGED assetVars

\* Save shows in edit mode, and stays until the save has completed.
TriggerSave ==
    /\ CanTrigger
    /\ \E id \in DOMAIN db, form \in EditForms :
          Trigger("handleSave", id, form, FALSE)

\* The comment box is always shown.
TriggerAddComment ==
    /\ CanTrigger
    /\ \E id \in DOMAIN db, text \in Reasons :
          Trigger("handleAddComment", id, [NoData EXCEPT !.reason = text], FALSE)

TriggerFileUpload ==
    /\ CanTrigger /\ ~isEditing
    /\ \E id \in DOMAIN db, files \in FileLists \ {<<>>} :
          Trigger("handleFileUpload", id, [NoData EXCEPT !.attachments = files], FALSE)

TriggerDelete ==
    /\ CanTrigger /\ ~isEditing
    /\ \E id \in DOMAIN db : Trigger("handleDelete", id, NoData, FALSE)

TriggerCloseDefect ==
    /\ CanTrigger /\ ~isEditing
    /\ \E id \in DOMAIN db, data \in CloseData :
          /\ Cur(id).status # "Closed"
          /\ Trigger("handleCloseDefect", id, data, FALSE)

TriggerReopenDefect ==
    /\ CanTrigger /\ ~isEditing
    /\ \E id \in DOMAIN db, data \in ReopenData, unsafe \in BOOLEAN :
          /\ Cur(id).status = "Closed"
          /\ data.isNewOccurrence => nextId + Pending <= MaxDefects
          /\ ~data.isNewOccurrence => ~unsafe
          /\ Trigger("handleReopenDefect", id, data, unsafe)

TriggerProgressUpdate ==
    /\ CanTrigger /\ ~isEditing
    /\ \E id \in DOMAIN db, data \in ReopenData, unsafe \in BOOLEAN :
          /\ data.isNewOccurrence => nextId + Pending <= MaxDefects
          /\ ~data.isNewOccurrence => ~unsafe
          /\ Trigger("addProgressUpdate", id, data, unsafe)

\* What the handler in flight does, from the state it completes in.
Handle(h) ==
    CASE h.handler = "handleSave" -> handleSave(Start, h.cur, h.data, now)
      [] h.handler = "handleAddComment" -> handleAddComment(Start, h.cur, h.data.reason)
      [] h.handler = "handleFileUpload" ->
            handleFileUpload(Start, h.cur, h.data.attachments, now)
      [] h.handler = "handleDelete" -> handleDelete(Start, h.cur, now)
      [] h.handler = "handleCloseDefect" -> handleCloseDefect(Start, h.cur, h.data, now)
      [] h.handler = "handleReopenDefect" ->
            handleReopenDefect(Start, h.cur, h.data, h.unsafe, now)
      [] h.handler = "addProgressUpdate" ->
            addProgressUpdate(Start, h.cur, h.data, h.unsafe, now)

Complete ==
    \E k \in DOMAIN inflight :
        LET r == Handle(inflight[k])
        IN /\ db' = r.db
           /\ nextId' = r.nextId
           /\ syncQueue' = r.syncQueue
           /\ state' = r.state
           /\ inflight' = SubSeq(inflight, 1, k - 1)
                             \o SubSeq(inflight, k + 1, Len(inflight))
           /\ UNCHANGED <<now, nOps>>
           /\ UNCHANGED assetVars

NextAsync ==
    \/ Tick
    \/ TriggerSave
    \/ TriggerAddComment
    \/ TriggerFileUpload
    \/ TriggerDelete
    \/ TriggerCloseDefect
    \/ TriggerReopenDefect
    \/ TriggerProgressUpdate
    \/ Complete

SpecAsync == Init /\ [][NextAsync]_vars

(* ------------------------- assets: bulk update ------------------------ *)

OperationalStatuses ==
    {"InUse", "OutOfUse", "OffHirePending", "OffHired", "Quarantined", "Archived"}

LifecycleStatuses == {"Active", "Expected", "Decommissioned", "Disposed"}

\* '' : the select left at "Change ... Status".
Unset == ""

\* The statuses the bulk update is tried with. No rule tells OutOfUse and
\* OffHirePending from InUse, OffHired from Archived, or Expected and
\* Decommissioned from Active.
BulkOperational == {"InUse", "Quarantined", "Archived"}

BulkLifecycle == {"Active", "Disposed"}

\* The operational statuses a Disposed asset may not hold.
Uncorrected == OperationalStatuses \ {"OffHired", "Archived"}

\* Fault: the correction offered is not one a Disposed asset may hold.
validateStatusCombination_BadCorrection(operationalStatus, lifecycleStatus) ==
    IF lifecycleStatus = "Disposed" /\ operationalStatus \in Uncorrected
    THEN IF operationalStatus \in correctable
         THEN [isValid |-> correctedIsValid,
               message |-> "Status corrected",
               autoCorrect |-> <<[operationalStatus |-> "OutOfUse"]>>]
         ELSE [isValid |-> FALSE,
               message |-> "Invalid status combination",
               autoCorrect |-> <<>>]
    ELSE [isValid |-> TRUE, message |-> "", autoCorrect |-> <<>>]

\* The validity table: Disposed with an operational status other than OffHired
\* or Archived is not valid as it is; for the statuses in correctable the
\* validator offers the correction to Archived, for the others it offers none.
\* Every other pair is valid. Which statuses are corrected, and whether a
\* corrected pair is reported with isValid true or false, is not fixed by the
\* description of the table, so correctable and correctedIsValid range over
\* every choice.
validateStatusCombination(operationalStatus, lifecycleStatus) ==
    IF lifecycleStatus = "Disposed" /\ operationalStatus \in Uncorrected
    THEN IF operationalStatus \in correctable
         THEN [isValid |-> correctedIsValid,
               message |-> "Status corrected",
               autoCorrect |-> <<[operationalStatus |-> "Archived"]>>]
         ELSE [isValid |-> FALSE,
               message |-> "Invalid status combination",
               autoCorrect |-> <<>>]
    ELSE [isValid |-> TRUE, message |-> "", autoCorrect |-> <<>>]

\* A partial Asset with the fields that are set.
statusUpdates(operationalStatus, lifecycleStatus) ==
    IF operationalStatus # Unset /\ lifecycleStatus # Unset
    THEN [operationalStatus |-> operationalStatus, lifecycleStatus |-> lifecycleStatus]
    ELSE IF operationalStatus # Unset THEN [operationalStatus |-> operationalStatus]
    ELSE IF lifecycleStatus # Unset THEN [lifecycleStatus |-> lifecycleStatus]
    ELSE <<>>

\* The updates with the validator's correction applied, when both statuses
\* are part of them and the pair needs one.
corrected(updates) ==
    IF {"operationalStatus", "lifecycleStatus"} \subseteq DOMAIN updates
    THEN LET v == validateStatusCombination(updates.operationalStatus,
                                            updates.lifecycleStatus)
         IN IF v.autoCorrect # <<>> THEN Merge(updates, v.autoCorrect[1])
            ELSE updates
    ELSE updates

\* The per-item failure of id, <<>> when there is none.
itemError(as, id, updates) ==
    IF id \notin DOMAIN as THEN <<[id |-> id, reason |-> "Asset not found"]>>
    ELSE IF {"operationalStatus", "lifecycleStatus"} \subseteq DOMAIN updates
    THEN LET v == validateStatusCombination(updates.operationalStatus,
                                            updates.lifecycleStatus)
         IN IF ~v.isValid /\ v.autoCorrect = <<>>
            THEN <<[id |-> id, reason |-> v.message]>>
            ELSE <<>>
    ELSE <<>>

\* Fault: the batch stops at the first item that fails.
RECURSIVE bulkUpdateAssets_Aborts(_, _, _)
bulkUpdateAssets_Aborts(as, ids, updates) ==
    IF ids = <<>> THEN [assets |-> as, updated |-> 0, errors |-> <<>>, thrown |-> FALSE]
    ELSE LET id == Head(ids)
             e == itemError(as, id, updates)
         IN IF e # <<>>
            THEN [assets |-> as, updated |-> 0, errors |-> e, thrown |-> FALSE]
            ELSE LET r == bulkUpdateAssets_Aborts(
                             [as EXCEPT ![id] = Merge(as[id], corrected(updates))],
                             Tail(ids), updates)
                 IN [r EXCEPT !.updated = r.updated + 1]

\* bulkUpdateAssets(ids, updates): the ids in input order; a failing item is
\* recorded and the batch goes on.
RECURSIVE bulkUpdateAssets(_, _, _)
bulkUpdateAssets(as, ids, updates) ==
    IF ids = <<>> THEN [assets |-> as, updated |-> 0, errors |-> <<>>, thrown |-> FALSE]
    ELSE LET id == Head(ids)
             e == itemError(as, id, updates)
         IN IF e # <<>>
            THEN LET r == bulkUpdateAssets(as, Tail(ids), updates)
                 IN [r EXCEPT !.errors = e \o r.errors]
            ELSE LET r == bulkUpdateAssets(
                             [as EXCEPT ![id] = Merge(as[id], corrected(updates))],
                             Tail(ids), updates)
                 IN [r EXCEPT !.updated = r.updated + 1]

\* What a call leaves in bulk.
Called(ids, updates, r, toast) ==
    [called |-> TRUE, ids |-> ids, updates |-> updates, updated |-> r.updated,
     errors |-> r.errors, thrown |-> r.thrown, toast |-> toast]

\* The updates object handleBulkUpdate builds: with both statuses chosen and
\* an autoCorrect in the validation, the autoCorrect's fields and no other.
bulkUpdates(bulkOperationalStatus, bulkLifecycleStatus) ==
    LET both == bulkOperationalStatus # Unset /\ bulkLifecycleStatus # Unset
        validation == validateStatusCombination(bulkOperationalStatus,
                                                bulkLifecycleStatus)
    IN IF both /\ validation.autoCorrect # <<>>
       THEN validation.autoCorrect[1]
       ELSE statusUpdates(bulkOperationalStatus, bulkLifecycleStatus)

\* handleBulkUpdate: the assets and what is shown after Apply.
handleBulkUpdate(as, selectedIds, bulkOperationalStatus, bulkLifecycleStatus) ==
    LET both == bulkOperationalStatus # Unset /\ bulkLifecycleStatus # Unset
        validation == validateStatusCombination(bulkOperationalStatus,
                                                bulkLifecycleStatus)
        updates == bulkUpdates(bulkOperationalStatus, bulkLifecycleStatus)
        result == bulkUpdateAssets(as, selectedIds, updates)
    IN IF selectedIds = <<>> THEN [assets |-> as, bulk |-> NoBulk]
       ELSE IF both /\ ~validation.isValid
       THEN [assets |-> as, bulk |-> [NoBulk EXCEPT !.toast = "error"]]
       ELSE IF DOMAIN updates = {}
       THEN [assets |-> as, bulk |-> [NoBulk EXCEPT !.toast = "error"]]
       ELSE [assets |-> result.assets,
             bulk |-> Called(selectedIds, updates, result,
                             IF result.errors # <<>> THEN "warning" ELSE "success")]

\* tableSelection.selectedIds: distinct ids, in the order they were ticked. The
\* selection is persisted, so it may hold the id of an asset that is gone:
\* MaxAssets + 1.
Selections ==
    {sel \in UNION {[1..n -> 1..(MaxAssets + 1)] : n \in 0..(MaxAssets + 1)} :
        \A i, j \in DOMAIN sel : i # j => sel[i] # sel[j]}

InitAssets ==
    /\ InitDefects
    /\ assets = mockAssets
    /\ bulk = NoBulk
    /\ correctable \in SUBSET (Uncorrected \cap BulkOperational)
    /\ correctedIsValid \in BOOLEAN

\* Apply, on the assets page.
HandleBulkUpdate ==
    /\ \E selectedIds \in Selections,
          bulkOperationalStatus \in BulkOperational \cup {Unset},
          bulkLifecycleStatus \in BulkLifecycle \cup {Unset} :
          LET r == handleBulkUpdate(assets, selectedIds, bulkOperationalStatus,
                                    bulkLifecycleStatus)
          IN assets' = r.assets /\ bulk' = r.bulk
    /\ UNCHANGED <<correctable, correctedIsValid, defectVars>>

\* The service called with any pair of statuses, unchecked by the page.
BulkUpdateAssets ==
    /\ \E ids \in Selections,
          operationalStatus \in BulkOperational,
          lifecycleStatus \in BulkLifecycle :
          LET updates == statusUpdates(operationalStatus, lifecycleStatus)
              r == bulkUpdateAssets(assets, ids, updates)
          IN assets' = r.assets /\ bulk' = Called(ids, updates, r, "none")
    /\ UNCHANGED <<correctable, correctedIsValid, defectVars>>

NextAssets ==
    \/ HandleBulkUpdate
    \/ BulkUpdateAssets

SpecAssets == InitAssets /\ [][NextAssets]_vars

(* ------------------------------ claims -------------------------------- *)

\* This step is the store operation that ended in r, as far as what is
\* persisted goes.
Persisted(r) ==
    /\ nOps' = nOps + 1
    /\ db' = r.db
    /\ nextId' = r.nextId
    /\ syncQueue' = r.syncQueue

\* This step is exactly the store operation that ended in r.
Ran(r) == Persisted(r) /\ state' = r.state

Types(history) == [k \in 1..Len(history) |-> history[k].type]

\* C1: closeDefect on a defect that is already Closed throws and leaves the
\* record and the sync queue as they were.
C1_CloseClosedFails ==
    [][\A id \in DOMAIN db, data \in CloseData :
          LET r == closeDefect(Start, id, data, UserId, UserName, now)
          IN Ran(r) /\ db[id].status = "Closed"
                => r.thrown /\ db' = db /\ syncQueue' = syncQueue]_vars

\* C2: closeDefect on a defect that is not Closed, when it does not clear the
\* unsafe flag, appends exactly one history entry, of type close, and exactly
\* one comment, whose text contains data.actionTaken verbatim.
C2_CloseAppendsOne ==
    [][\A id \in DOMAIN db, data \in CloseData :
          LET r == closeDefect(Start, id, data, UserId, UserName, now)
          IN /\ db[id].status # "Closed"
             /\ ~(data.returnToService /\ db[id].unsafeDoNotUse)
             /\ Ran(r)
             => /\ Len(db'[id].history) = Len(db[id].history) + 1
                /\ IsPrefix(db[id].history, db'[id].history)
                /\ db'[id].history[Len(db'[id].history)].type = "close"
                /\ Len(db'[id].comments) = Len(db[id].comments) + 1
                /\ IsPrefix(db[id].comments, db'[id].comments)
                /\ Contains(db'[id].comments[Len(db'[id].comments)].text,
                            data.actionTaken)]_vars

\* A defect closed once, with the one close entry and the one comment that
\* quotes the action taken.
C2_Witness ==
    \E id \in DOMAIN db :
        /\ db[id].status = "Closed"
        /\ db[id].unsafeDoNotUse
        /\ Types(db[id].history) = <<"close">>
        /\ Len(db[id].comments) = 1
        /\ db[id].actionTaken = <<"ok", "seal">>
        /\ db[id].comments[1].text = <<"Action: ", "ok", "seal", ". ", "tested">>

\* C3: closeDefect with returnToService = true on an unsafe defect leaves it
\* Closed and not unsafe, with exactly two new history entries: a close
\* entry, then a status_change entry.
C3_ReturnToService ==
    [][\A id \in DOMAIN db, data \in CloseData :
          LET r == closeDefect(Start, id, data, UserId, UserName, now)
          IN data.returnToService /\ db[id].unsafeDoNotUse /\ Ran(r)
             => /\ db'[id].status = "Closed"
                /\ db'[id].unsafeDoNotUse = FALSE
                /\ Types(db'[id].history)
                      = Types(db[id].history) \o <<"close", "status_change">>
                /\ IsPrefix(db[id].history, db'[id].history)]_vars

\* The seeded unsafe defect, closed and returned to service.
C3_Witness ==
    /\ 2 \in DOMAIN db
    /\ db[2].status = "Closed"
    /\ ~db[2].unsafeDoNotUse
    /\ Types(db[2].history) = <<"close", "status_change">>

\* C4: reopenDefect with isNewOccurrence = true leaves the source's status
\* alone, adds exactly 1 to its recurrenceCount, and returns the id of a new
\* record, different from the source, whose parentDefectId is the source id.
C4_NewOccurrence ==
    [][\A id \in DOMAIN db, data \in ReopenData, unsafe \in BOOLEAN :
          LET r == reopenDefect(Start, id, data, UserId, UserName, unsafe, now)
          IN data.isNewOccurrence /\ Ran(r)
             => /\ db'[id].status = db[id].status
                /\ db'[id].recurrenceCount = db[id].recurrenceCount + 1
                /\ r.ret # id
                /\ r.ret \notin DOMAIN db
                /\ r.ret \in DOMAIN db'
                /\ db'[r.ret].id = r.ret
                /\ db'[r.ret].parentDefectId = id]_vars

\* A Closed defect with one recurrence recorded, and the child that names it.
C4_Witness ==
    \E p \in DOMAIN db, c \in DOMAIN db :
        /\ c # p
        /\ db[c].parentDefectId = p
        /\ db[p].recurrenceCount = 1
        /\ db[p].status = "Closed"

\* C5: reopenDefect with isNewOccurrence = false on a Closed defect sets its
\* status to Open, adds exactly 1 to reopenedCount, clears closedAt, closedBy
\* and closedByName, creates no record and returns the same id.
C5_ReopenSame ==
    [][\A id \in DOMAIN db, data \in ReopenData :
          LET r == reopenDefect(Start, id, data, UserId, UserName, FALSE, now)
          IN ~data.isNewOccurrence /\ db[id].status = "Closed" /\ Ran(r)
             => /\ db'[id].status = "Open"
                /\ db'[id].reopenedCount = db[id].reopenedCount + 1
                /\ db'[id].closedAt = NoTime
                /\ db'[id].closedBy = Undefined
                /\ db'[id].closedByName = Undefined
                /\ DOMAIN db' = DOMAIN db
                /\ nextId' = nextId
                /\ r.ret = id]_vars

\* A defect that was closed and then reopened in place.
C5_Witness ==
    \E id \in DOMAIN db :
        /\ db[id].status = "Open"
        /\ db[id].reopenedCount = 1
        /\ db[id].closedAt = NoTime
        /\ db[id].closedBy = Undefined
        /\ Types(db[id].history) = <<"close", "reopen">>

\* Some reopen of defect id (the store call, the Reopen modal, or a progress
\* update, which reopens a Closed defect) makes this step.
ByReopen(id) ==
    \E data \in ReopenData, unsafe \in BOOLEAN :
        \/ Persisted(reopenDefect(Start, id, data, UserId, UserName, unsafe, now))
        \/ Persisted(addProgressUpdate(Mounted(id), Cur(id), data, unsafe, now))

\* Some close of defect id makes this step.
ByClose(id) ==
    \E data \in CloseData :
        Persisted(closeDefect(Start, id, data, UserId, UserName, now))

\* C6: a status leaves Closed only through a reopen, and then becomes Open,
\* and enters Closed only through a close.
C6_ClosedOnlyByCloseReopen ==
    [][\A id \in DOMAIN db \cap DOMAIN db' :
          /\ db[id].status = "Closed" /\ db'[id].status # "Closed"
                => ByReopen(id) /\ db'[id].status = "Open"
          /\ db[id].status # "Closed" /\ db'[id].status = "Closed"
                => ByClose(id)]_vars

\* C7: whatever the operation, each defect's history and comments before it
\* are a prefix of its history and comments after it.
C7_AppendOnly ==
    [][\A id \in DOMAIN db \cap DOMAIN db' :
          /\ IsPrefix(db[id].history, db'[id].history)
          /\ IsPrefix(db[id].comments, db'[id].comments)]_vars

\* A defect that carried a comment when it was closed: the close comment comes
\* second.
C7_Witness ==
    \E id \in DOMAIN db :
        /\ Len(db[id].comments) = 2
        /\ db[id].comments[1].text = <<"leak">>
        /\ Contains(db[id].comments[2].text, <<"Action: ">>)
        /\ Types(db[id].history) = <<"close">>

\* The persisted record of id is created, changed or removed in this step.
Mutated(id) ==
    \/ id \in DOMAIN db /\ id \notin DOMAIN db'
    \/ id \notin DOMAIN db /\ id \in DOMAIN db'
    \/ id \in DOMAIN db /\ id \in DOMAIN db' /\ db[id] # db'[id]

\* C9: every mutation of a persisted record puts at least one new item for
\* that record on the sync queue, and only a flush removes or rewrites items.
C9_EveryMutationQueued ==
    [][/\ \A id \in Ids :
             Mutated(id) =>
                \E k \in (Len(syncQueue) + 1)..Len(syncQueue') :
                    syncQueue'[k].id = id
       /\ Persisted(sync(Start, TRUE, now)) \/ IsPrefix(syncQueue, syncQueue')]_vars

\* The results of the mutating store operations in this state, each with
\* every argument the callers pass.
MutatingResults ==
    {createNewDefect(Start, d, u, now) :
        d \in {x \in NewDefects : nextId <= MaxDefects}, u \in BOOLEAN}
    \cup {updateDefectData(Start, id, editUpdates(f), now) :
            id \in Ids, f \in EditForms}
    \cup {deleteDefectData(Start, id, now) : id \in DOMAIN db}
    \cup {closeDefect(Start, id, d, UserId, UserName, now) :
            id \in Ids, d \in CloseData}
    \cup {reopenDefect(Start, id, d, UserId, UserName, u, now) :
            id \in Ids, u \in BOOLEAN,
            d \in {x \in ReopenData : x.isNewOccurrence => nextId <= MaxDefects}}
    \cup {sync(Start, TRUE, now)}

\* C10: when a mutating store operation (create, update, delete, close,
\* reopen, sync) has completed, state.summary is the summary a full scan of the
\* persisted defects gives at that moment: either the two agree after the
\* step, or the step is not a mutating operation that completed.
C10_SummaryIsFullScan ==
    [][\/ state'.summary = getDefectSummary(db', now')
       \/ ~\E r \in MutatingResults : Ran(r) /\ ~r.thrown]_vars

\* After a close the summary counts fewer open defects than defects, and
\* agrees with the scan.
C10_Witness ==
    /\ state.summary.total = 2
    /\ state.summary.open = 1
    /\ state.summary.unsafe = 0
    /\ state.summary = getDefectSummary(db, now)

\* C8: no two operations on the same defect record are in flight at the same
\* time.
C8_OneInFlightPerDefect ==
    \A i \in DOMAIN inflight, j \in DOMAIN inflight :
        i # j => inflight[i].id # inflight[j].id

(* --------------------------- claims: assets --------------------------- *)

\* Every pair of statuses an update can carry, '' for a status left out.
StatusChoices ==
    {c \in (OperationalStatuses \cup {Unset}) \X (LifecycleStatuses \cup {Unset}) :
        c # <<Unset, Unset>>}

\* The positions of ids whose item fails: asset not found, or the pair invalid
\* with no correction.
Failing(ids, updates) ==
    {k \in DOMAIN ids : itemError(assets, ids[k], updates) # <<>>}

\* C11: bulkUpdateAssets with N ids of which K fail per item returns
\* updated = N - K and K errors, does not throw, and applies the update to
\* every valid id, those after a failing id included.
C11_BulkPartialFailure ==
    \A ids \in Selections, c \in StatusChoices :
        LET updates == statusUpdates(c[1], c[2])
            r == bulkUpdateAssets(assets, ids, updates)
            K == Cardinality(Failing(ids, updates))
        IN /\ ~r.thrown
           /\ r.updated = Len(ids) - K
           /\ Len(r.errors) = K
           /\ DOMAIN r.assets = DOMAIN assets
           /\ \A k \in DOMAIN ids \ Failing(ids, updates) :
                 r.assets[ids[k]] = Merge(assets[ids[k]], corrected(updates))
           /\ \A id \in DOMAIN assets :
                 (\A k \in DOMAIN ids : ids[k] # id) => r.assets[id] = assets[id]

\* A batch of two whose first id is not found and whose second was updated.
C11_Witness ==
    /\ bulk.called
    /\ Len(bulk.ids) = 2
    /\ bulk.ids[1] \notin DOMAIN assets
    /\ bulk.ids[2] \in DOMAIN assets
    /\ bulk.updated = 1
    /\ Len(bulk.errors) = 1
    /\ bulk.errors[1].id = bulk.ids[1]
    /\ assets[bulk.ids[2]].operationalStatus = "Quarantined"

\* The table holds the pair valid as it is.
Legal(operationalStatus, lifecycleStatus) ==
    LET v == validateStatusCombination(operationalStatus, lifecycleStatus)
    IN v.isValid /\ v.autoCorrect = <<>>

\* C12: after any sequence of bulk status updates no asset holds an illegal
\* (operationalStatus, lifecycleStatus) pair.
C12_NoIllegalPair ==
    \A id \in DOMAIN assets :
        Legal(assets[id].operationalStatus, assets[id].lifecycleStatus)

OnlyNotFound ==
    /\ db' = db
    /\ nextId' = nextId
    /\ syncQueue' = syncQueue
    /\ state' = [state EXCEPT !.error = "Defect not found"]

\* C14: closeDefect or reopenDefect with an id that resolves to no record
\* throws "Defect not found", creates or changes no persisted record, appends
\* nothing to the sync queue, and changes nothing in the store but its error
\* field.
C14_NotFound ==
    [][\A id \in Ids \ DOMAIN db :
          /\ \A data \in CloseData :
                LET r == closeDefect(Start, id, data, UserId, UserName, now)
                IN Ran(r) => r.thrown /\ OnlyNotFound
          /\ \A data \in ReopenData, unsafe \in BOOLEAN :
                LET r == reopenDefect(Start, id, data, UserId, UserName, unsafe, now)
                IN Ran(r) => r.thrown /\ OnlyNotFound]_vars

\* A call with an unknown id has failed, with nothing persisted or queued.
C14_Witness ==
    /\ state.error = "Defect not found"
    /\ nOps = 1
    /\ syncQueue = <<>>
    /\ DOMAIN db = 1..Len(seedData)

\* Started from s at time t, create, update, close and reopen complete
\* without throwing.
MutationsSucceed(s, t) ==
    /\ \A d \in NewDefects, u \in BOOLEAN : ~createNewDefect(s, d, u, t).thrown
    /\ \A id \in DOMAIN s.db :
          /\ \A f \in EditForms : ~updateDefectData(s, id, editUpdates(f), t).thrown
          /\ \A d \in CloseData :
                ~closeDefect(s, id, d, UserId, UserName, t).thrown
          /\ \A d \in ReopenData, u \in BOOLEAN :
                ~reopenDefect(s, id, d, UserId, UserName, u, t).thrown

\* C15: when the flush fails, sync returns without throwing, no defect record
\* is changed, every pending item is still queued, and create, update, close
\* and reopen still succeed afterwards.
C15_FlushFailure ==
    [][LET r == sync(Start, FALSE, now)
       IN Ran(r) => /\ ~r.thrown
                    /\ db' = db
                    /\ nextId' = nextId
                    /\ syncQueue' = syncQueue
                    /\ MutationsSucceed([r EXCEPT !.state = state'], now')]_vars

\* A sync has failed with an item pending, and the item is still there.
C15_Witness ==
    /\ state.error = FlushError
    /\ Len(syncQueue) = 1
    /\ state.syncQueueCount = 1

C18_DeleteOnlyThat ==
    [][\A id \in DOMAIN db :
          /\ LET r == deleteDefectData(Mounted(id), id, now)
             IN Ran(r)
                => /\ DOMAIN db' = DOMAIN db \ {id}
                   /\ \A j \in DOMAIN db' : db'[j] = db[j]
                   /\ state'.defects
                         = SelectSeq(Mounted(id).state.defects, LAMBDA d : d.id # id)
                   /\ state'.currentDefect = <<>>
          /\ LET r == deleteDefectData(Start, id, now)
             IN /\ r.state.defects = SelectSeq(state.defects, LAMBDA d : d.id # id)
                /\ r.state.currentDefect
                      = IF state.currentDefect # <<>> /\ state.currentDefect[1].id = id
                        THEN <<>> ELSE state.currentDefect]_vars

\* A child recurrence whose parent was deleted: it is still there and still
\* names the parent.
C18_Witness ==
    \E c \in DOMAIN db :
        /\ db[c].parentDefectId # NoId
        /\ db[c].parentDefectId \notin DOMAIN db
        /\ \A k \in 1..Len(state.defects) : state.defects[k].id \in DOMAIN db

C20_UnsafeOnlyOnReturn ==
    [][\A id \in DOMAIN db, data \in CloseData :
          LET r == closeDefect(Start, id, data, UserId, UserName, now)
          IN Persisted(r)
             => /\ ~data.returnToService
                      => db'[id].unsafeDoNotUse = db[id].unsafeDoNotUse
                /\ ~db[id].unsafeDoNotUse
                      => /\ ~db'[id].unsafeDoNotUse
                         /\ Types(db'[id].history)
                               = Types(db[id].history) \o <<"close">>]_vars

\* The unsafe defect closed without a return to service: still unsafe.
C20_Witness ==
    /\ 2 \in DOMAIN db
    /\ db[2].status = "Closed"
    /\ db[2].unsafeDoNotUse
    /\ Types(db[2].history) = <<"close">>
    /\ state.summary.unsafe = 1

(* ------------------------ claims: assets, continued -------------------- *)

\* This step is Apply with these ids selected and these statuses chosen.
Applied(r) == assets' = r.assets /\ bulk' = r.bulk

\* Apply was refused: no asset changed, the service was not called, and an
\* error is shown.
Rejected(r) == r.assets = assets /\ ~r.bulk.called /\ r.bulk.toast = "error"

\* C21: in handleBulkUpdate with both statuses chosen and assets selected, a
\* validation that carries an autoCorrect has its values applied to every
\* selected asset, and Apply is refused only when the validation is invalid
\* and carries no autoCorrect.
C21_AutoCorrectApplied ==
    [][\A selectedIds \in Selections \ {<<>>},
          o \in BulkOperational, l \in BulkLifecycle :
          LET v == validateStatusCombination(o, l)
              r == handleBulkUpdate(assets, selectedIds, o, l)
          IN Applied(r)
             => /\ v.autoCorrect # <<>>
                   => \A k \in DOMAIN selectedIds :
                         selectedIds[k] \in DOMAIN assets
                            => \A f \in DOMAIN v.autoCorrect[1] :
                                  assets'[selectedIds[k]][f] = v.autoCorrect[1][f]
                /\ Rejected(r) => ~v.isValid /\ v.autoCorrect = <<>>]_vars

\* C22: with both statuses chosen and the pair accepted, the updates handed to
\* bulkUpdateAssets hold both fields: the autoCorrect's value where the
\* autoCorrect names the field, the chosen value where it does not.
C22_UpdatesHoldBoth ==
    [][\A selectedIds \in Selections \ {<<>>},
          o \in BulkOperational, l \in BulkLifecycle :
          LET v == validateStatusCombination(o, l)
              chosen == [operationalStatus |-> o, lifecycleStatus |-> l]
              r == handleBulkUpdate(assets, selectedIds, o, l)
          IN v.isValid /\ Applied(r)
             => /\ bulk'.called
                /\ DOMAIN bulk'.updates = {"operationalStatus", "lifecycleStatus"}
                /\ \A f \in DOMAIN bulk'.updates :
                      bulk'.updates[f] =
                         IF v.autoCorrect # <<>> /\ f \in DOMAIN v.autoCorrect[1]
                         THEN v.autoCorrect[1][f] ELSE chosen[f]]_vars

(* ---------------------- claims: defects, continued -------------------- *)

\* This step is a handler of the detail page that can reach reopenDefect for
\* defect id: the Reopen modal, shown while the defect is Closed (canReopen),
\* or the "Add Progress Update" modal, shown always.
UIReopen(id) ==
    \E data \in ReopenData, unsafe \in BOOLEAN :
        \/ /\ Cur(id).status = "Closed"
           /\ Ran(handleReopenDefect(Mounted(id), Cur(id), data, unsafe, now))
        \/ Ran(addProgressUpdate(Mounted(id), Cur(id), data, unsafe, now))

\* C23: through the page, a recurrence record is created only from a Closed
\* source, and reopenedCount grows only when a Closed defect becomes Open.
C23_ReopenOnlyClosed ==
    [][\A id \in DOMAIN db :
          /\ id \in DOMAIN db'
          /\ \/ \E c \in DOMAIN db' \ DOMAIN db : db'[c].parentDefectId = id
             \/ db'[id].reopenedCount > db[id].reopenedCount
          /\ UIReopen(id)
          => db[id].status = "Closed" /\ db'[id].status \in {"Open", "Closed"}]_vars

\* C24: a progress update on the same defect (isNewOccurrence = false) with
\* attachments adds each of them to the defect's attachments exactly once,
\* whether the defect is open or Closed; a Closed defect is reopened as well.
C24_AttachmentsOnce ==
    [][\A id \in DOMAIN db, data \in ReopenData :
          LET r == addProgressUpdate(Mounted(id), Cur(id), data, FALSE, now)
          IN ~data.isNewOccurrence /\ data.attachments # <<>> /\ Ran(r)
             => /\ db'[id].attachments = db[id].attachments \o data.attachments
                /\ db[id].status = "Closed" => db'[id].status = "Open"]_vars

\* The working set st.defects holds exactly the records of the repository d.
HoldsStore(st, d) ==
    /\ Len(st.defects) = Cardinality(DOMAIN d)
    /\ {st.defects[k] : k \in DOMAIN st.defects} = {d[i] : i \in DOMAIN d}

\* The results of the store operations that write a defect, in this state.
WritingResults ==
    (MutatingResults \ {sync(Start, TRUE, now)})
    \cup {addDefectComment(Start, id, [by |-> UserId, text |-> x]) :
            id \in Ids, x \in Reasons}

\* C25: when a store operation that writes a defect completes from a state
\* whose working set held the persisted records, the working set again holds
\* exactly the persisted records, history and comments included.
C25_WorkingSetIsStore ==
    [][\/ HoldsStore(state', db')
       \/ ~HoldsStore(state, db)
       \/ ~\E r \in WritingResults : Ran(r) /\ ~r.thrown]_vars

(* ------------------ store operations, collaborator failing ------------- *)

\* The functions of the repository and of the sync queue the store awaits.
Collaborators ==
    {"queryDefects", "getDefectById", "getDefectSummary", "getDefectSettings",
     "getSyncQueueItems", "createDefect", "updateDefect", "deleteDefect",
     "addComment", "addHistoryEntry", "addToSyncQueue", "flushSyncQueue"}

\* fail names the collaborator that rejects while the operation runs, "none"
\* when every call resolves.
Failures == Collaborators \cup {"none"}

\* error.message of the rejection.
CollaboratorError == "Collaborator failed"

\* Fault: the load rethrows instead of returning.
Swallow_Rethrows(s, message) == [SET_ERROR(s, message) EXCEPT !.thrown = TRUE]

\* catch (error) { dispatch SET_ERROR } : the operation returns normally.
Swallow(s, message) == SET_ERROR(s, message)

loadDefectsF(s, fail) ==
    IF fail = "queryDefects" THEN Swallow(s, CollaboratorError)
    ELSE loadDefects(s)

loadDefectF(s, id, fail) ==
    IF fail = "getDefectById"
    THEN SET_CURRENT_DEFECT(Swallow(s, CollaboratorError), <<>>)
    ELSE loadDefect(s, id)

loadSummaryF(s, t, fail) ==
    IF fail = "getDefectSummary" THEN Swallow(s, CollaboratorError)
    ELSE loadSummary(s, t)

\* The settings are not part of the state kept here: SET_SETTINGS leaves the
\* rest of it alone.
loadSettingsF(s, fail) ==
    IF fail = "getDefectSettings" THEN Swallow(s, CollaboratorError)
    ELSE s

refreshSyncQueueF(s, fail) ==
    IF fail = "getSyncQueueItems" THEN Swallow(s, CollaboratorError)
    ELSE refreshSyncQueue(s)

syncF(s, t, fail) ==
    IF fail = "flushSyncQueue" THEN Swallow(s, CollaboratorError)
    ELSE LET s1 == flushSyncQueue(s, TRUE)
             s2 == refreshSyncQueueF(s1, fail)
             s3 == loadDefectsF(s2, fail)
         IN loadSummaryF(s3, t, fail)

createNewDefectF(s, defect, unsafe, t, fail) ==
    IF fail = "createDefect" THEN Throw(s, CollaboratorError)
    ELSE LET s1 == createDefect(s, defect, unsafe)
             newDefect == s1.db[s1.ret]
             s2 == ADD_DEFECT(s1, newDefect)
         IN IF fail = "addToSyncQueue" THEN Throw(s2, CollaboratorError)
            ELSE LET s3 == addToSyncQueue(s2, "createDefect", newDefect.id)
                     s4 == refreshSyncQueueF(s3, fail)
                 IN loadSummaryF(s4, t, fail)

updateDefectDataF(s, id, updates, t, fail) ==
    IF fail = "updateDefect" THEN Throw(s, CollaboratorError)
    ELSE IF id \notin DOMAIN s.db THEN Throw(s, "Defect not found")
    ELSE LET s1 == updateDefect(s, id, updates)
             s2 == UPDATE_DEFECT(s1, s1.db[id])
         IN IF fail = "addToSyncQueue" THEN Throw(s2, CollaboratorError)
            ELSE LET s3 == addToSyncQueue(s2, "updateDefect", id)
                     s4 == refreshSyncQueueF(s3, fail)
                 IN loadSummaryF(s4, t, fail)

deleteDefectDataF(s, id, t, fail) ==
    IF fail = "deleteDefect" THEN Throw(s, CollaboratorError)
    ELSE LET s1 == deleteDefect(s, id)
             s2 == REMOVE_DEFECT(s1, id)
         IN IF fail = "addToSyncQueue" THEN Throw(s2, CollaboratorError)
            ELSE LET s3 == addToSyncQueue(s2, "deleteDefect", id)
                     s4 == refreshSyncQueueF(s3, fail)
                 IN loadSummaryF(s4, t, fail)

addDefectCommentF(s, id, comment, fail) ==
    IF fail = "addComment" THEN Throw(s, CollaboratorError)
    ELSE IF id \notin DOMAIN s.db THEN Throw(s, "Defect not found")
    ELSE LET s1 == addComment(s, id, comment)
             s2 == loadDefectF(s1, id, fail)
         IN loadDefectsF(s2, fail)

\* A nested store operation threw: the catch dispatches its message and
\* throws it on.
Rethrow(s) == Throw(s, s.state.error)

closeDefectF(s, id, data, userId, userName, t, fail) ==
    IF fail = "getDefectById" THEN Throw(s, CollaboratorError)
    ELSE IF getDefectById(s, id) = <<>> THEN Throw(s, "Defect not found")
    ELSE LET defect == getDefectById(s, id)[1]
             s1 == updateDefectDataF(s, id,
                      closeUpdates(defect, data, userId, userName, t), t, fail)
         IN IF s1.thrown THEN Rethrow(s1)
            ELSE IF fail = "addHistoryEntry" THEN Throw(s1, CollaboratorError)
            ELSE LET s2 == addHistoryEntry(s1, id,
                              [type |-> "close", summary |-> closeSummary(data)])
                     s3 == IF clearsUnsafe(defect, data)
                           THEN addHistoryEntry(s2, id,
                                  [type |-> "status_change",
                                   summary |-> <<"Asset returned to service - Unsafe flag cleared">>])
                           ELSE s2
                     s4 == addToSyncQueue(s3, "closeDefect", id)
                 IN refreshSyncQueueF(s4, fail)

reopenDefectF(s, id, data, userId, userName, unsafe, t, fail) ==
    IF fail = "getDefectById" THEN Throw(s, CollaboratorError)
    ELSE IF getDefectById(s, id) = <<>> THEN Throw(s, "Defect not found")
    ELSE LET defect == getDefectById(s, id)[1]
         IN IF data.isNewOccurrence
            THEN IF fail = "createDefect" THEN Throw(s, CollaboratorError)
                 ELSE LET s1 == createDefect(s, recurrenceOf(defect, data), unsafe)
                          newId == s1.ret
                          s2 == updateDefectDataF(s1, newId, childLink(defect), t, fail)
                          s3 == updateDefectDataF(s2, defect.id, parentCount(defect),
                                                  t, fail)
                      IN IF s2.thrown THEN Rethrow(s2)
                         ELSE IF s3.thrown THEN Rethrow(s3)
                         ELSE [s3 EXCEPT !.ret = newId]
            ELSE LET s1 == updateDefectDataF(s, id, reopenUpdates(defect, data), t, fail)
                     s2 == addHistoryEntry(s1, id,
                             [type |-> "reopen",
                              summary |-> <<"Defect reopened: ">> \o data.reason])
                     s3 == addDefectCommentF(s2, id, reopenComment(data, userId), fail)
                     s4 == addToSyncQueue(s3, "reopenDefect", id)
                     s5 == refreshSyncQueueF(s4, fail)
                 IN IF s1.thrown THEN Rethrow(s1)
                    ELSE IF fail = "addHistoryEntry" THEN Throw(s1, CollaboratorError)
                    ELSE IF s3.thrown THEN Rethrow(s3)
                    ELSE [s5 EXCEPT !.ret = id]

\* The inputs the failing operations are tried with: one edit, one close, and
\* a reopen of each kind.
FaultForms == {f \in EditForms : f.status = "InProgress" /\ ~f.unsafeDoNotUse}

FaultCloseData == {d \in CloseData : d.returnToService /\ d.actionTaken = <<"seal">>}

FaultReopenData == {d \in ReopenData : d.attachments = <<>>}

\* The comment the page adds.
PageComment == [by |-> UserId, text |-> <<"leak">>]

LoadDefects ==
    /\ CanStart
    /\ \E fail \in Failures : Commit(loadDefectsF(Start, fail))
    /\ UNCHANGED inflight

LoadDefect ==
    /\ CanStart
    /\ \E id \in Ids, fail \in Failures : Commit(loadDefectF(Start, id, fail))
    /\ UNCHANGED inflight

LoadSummary ==
    /\ CanStart
    /\ \E fail \in Failures : Commit(loadSummaryF(Start, now, fail))
    /\ UNCHANGED inflight

LoadSettings ==
    /\ CanStart
    /\ \E fail \in Failures : Commit(loadSettingsF(Start, fail))
    /\ UNCHANGED inflight

RefreshSyncQueue ==
    /\ CanStart
    /\ \E fail \in Failures : Commit(refreshSyncQueueF(Start, fail))
    /\ UNCHANGED inflight

SyncF ==
    /\ CanStart
    /\ \E fail \in Failures : Commit(syncF(Start, now, fail))
    /\ UNCHANGED inflight

CreateNewDefectF ==
    /\ CanStart
    /\ nextId <= MaxDefects
    /\ \E defect \in NewDefects, fail \in Failures :
          Commit(createNewDefectF(Start, defect, FALSE, now, fail))
    /\ UNCHANGED inflight

UpdateDefectDataF ==
    /\ CanStart
    /\ \E id \in DOMAIN db, form \in FaultForms, fail \in Failures :
          Commit(updateDefectDataF(Start, id, editUpdates(form), now, fail))
    /\ UNCHANGED inflight

DeleteDefectDataF ==
    /\ CanStart
    /\ \E id \in DOMAIN db, fail \in Failures :
          Commit(deleteDefectDataF(Start, id, now, fail))
    /\ UNCHANGED inflight

AddDefectCommentF ==
    /\ CanStart
    /\ \E id \in DOMAIN db, fail \in Failures :
          Commit(addDefectCommentF(Start, id, PageComment, fail))
    /\ UNCHANGED inflight

CloseDefectF ==
    /\ CanStart
    /\ \E id \in DOMAIN db, data \in FaultCloseData, fail \in Failures :
          Commit(closeDefectF(Start, id, data, UserId, UserName, now, fail))
    /\ UNCHANGED inflight

ReopenDefectF ==
    /\ CanStart
    /\ \E id \in DOMAIN db, data \in FaultReopenData, fail \in Failures :
          /\ data.isNewOccurrence => nextId <= MaxDefects
          /\ Commit(reopenDefectF(Start, id, data, UserId, UserName, FALSE, now, fail))
    /\ UNCHANGED inflight

NextFaults ==
    \/ LoadDefects
    \/ LoadDefect
    \/ LoadSummary
    \/ LoadSettings
    \/ RefreshSyncQueue
    \/ SyncF
    \/ CreateNewDefectF
    \/ UpdateDefectDataF
    \/ DeleteDefectDataF
    \/ AddDefectCommentF
    \/ CloseDefectF
    \/ ReopenDefectF

SpecFaults == Init /\ [][NextFaults]_vars

\* The results, in this state, of the writing operations run with the
\* collaborator fail rejecting, for the operations and arguments that call it
\* outside a load.
ThrowingResults(fail) ==
    {createNewDefectF(Start, d, FALSE, now, fail) :
        d \in {x \in NewDefects :
                 nextId <= MaxDefects /\ fail \in {"createDefect", "addToSyncQueue"}}}
    \cup {updateDefectDataF(Start, id, editUpdates(f), now, fail) :
            id \in {i \in DOMAIN db : fail \in {"updateDefect", "addToSyncQueue"}},
            f \in FaultForms}
    \cup {deleteDefectDataF(Start, id, now, fail) :
            id \in {i \in DOMAIN db : fail \in {"deleteDefect", "addToSyncQueue"}}}
    \cup {addDefectCommentF(Start, id, PageComment, fail) :
            id \in {i \in DOMAIN db : fail = "addComment"}}
    \cup {closeDefectF(Start, id, d, UserId, UserName, now, fail) :
            id \in {i \in DOMAIN db :
                      fail \in {"getDefectById", "updateDefect", "addHistoryEntry",
                                "addToSyncQueue"}},
            d \in FaultCloseData}
    \cup {reopenDefectF(Start, id, d, UserId, UserName, FALSE, now, fail) :
            id \in DOMAIN db,
            d \in {x \in FaultReopenData :
                     /\ x.isNewOccurrence => nextId <= MaxDefects
                     /\ fail \in IF x.isNewOccurrence
                                 THEN {"getDefectById", "createDefect", "updateDefect",
                                       "addToSyncQueue"}
                                 ELSE {"getDefectById", "updateDefect", "addHistoryEntry",
                                       "addComment", "addToSyncQueue"}}}

\* The results of the loads and of sync run with their collaborator rejecting.
ReturningResults(fail) ==
    {loadDefectsF(Start, f) : f \in {fail} \cap {"queryDefects"}}
    \cup {loadDefectF(Start, id, f) : id \in Ids, f \in {fail} \cap {"getDefectById"}}
    \cup {loadSummaryF(Start, now, f) : f \in {fail} \cap {"getDefectSummary"}}
    \cup {loadSettingsF(Start, f) : f \in {fail} \cap {"getDefectSettings"}}
    \cup {refreshSyncQueueF(Start, f) : f \in {fail} \cap {"getSyncQueueItems"}}
    \cup {syncF(Start, now, f) :
            f \in {fail} \cap {"flushSyncQueue", "getSyncQueueItems", "queryDefects",
                              "getDefectSummary"}}

\* C26: a collaborator that rejects inside a writing operation makes it set
\* state.error and rethrow; one that rejects inside a load or inside sync makes
\* it set state.error and return normally, and loadDefect then also sets
\* currentDefect to null.
C26_FailureHandling ==
    [][\A fail \in Collaborators :
          /\ \A r \in ThrowingResults(fail) :
                Ran(r) => r.thrown /\ state'.error = CollaboratorError
          /\ \A r \in ReturningResults(fail) :
                Ran(r) => ~r.thrown /\ state'.error = CollaboratorError
          /\ \A id \in Ids :
                Ran(loadDefectF(Start, id, "getDefectById"))
                   => state'.currentDefect = <<>>]_vars

\* After a defect was loaded, an operation met a rejecting collaborator: its
\* message is in state.error and nothing was written or queued.
C26_Witness ==
    /\ nOps = 2
    /\ state.error = CollaboratorError
    /\ state.currentDefect # <<>>
    /\ state.currentDefect[1].status = "Open"
    /\ syncQueue = <<>>
    /\ \A i \in DOMAIN db : db[i].status = "Open" /\ db[i].comments = <<>>

(* ----------------------- provider initialisation ----------------------- *)

\* The provider's effect calls init(), an async function: each await is a step,
\* and the effect of a second mount runs its steps between those of the first.

\* Times the provider is mounted.
MaxInits == 2

InitSeed ==
    /\ db = Fresh.db
    /\ nextId = Fresh.nextId
    /\ syncQueue = Fresh.syncQueue
    /\ state = Fresh.state
    /\ now = 1
    /\ nOps = 0
    /\ inflight = <<>>
    /\ assets = mockAssets
    /\ bulk = NoBulk
    /\ correctable = {}
    /\ correctedIsValid = FALSE

\* useEffect(() => { init() }, []) : one more init in flight, about to await
\* getAllDefects.
MountProvider ==
    /\ nOps < MaxInits
    /\ nOps' = nOps + 1
    /\ inflight' = Append(inflight, [pc |-> "getAllDefects", k |-> 1])
    /\ UNCHANGED <<db, nextId, syncQueue, state, now>>
    /\ UNCHANGED assetVars

\* The init at position i goes on at pc, with k the seed record it is at.
Goes(i, pc, k) == inflight' = [inflight EXCEPT ![i] = [pc |-> pc, k |-> k]]

\* const existing = await getAllDefects(); if (existing.length > 0) return
GetAllDefects ==
    \E i \in DOMAIN inflight :
        /\ inflight[i].pc = "getAllDefects"
        /\ IF DOMAIN db # {} THEN Goes(i, "loadDefects", 1)
           ELSE Goes(i, "createDefect", 1)
        /\ UNCHANGED <<db, nextId, syncQueue, state, now, nOps>>
        /\ UNCHANGED assetVars

\* for (const data of seedData) await createDefect(data)
SeedCreateDefect ==
    \E i \in DOMAIN inflight :
        LET k == inflight[i].k
            s == createDefect(Start, seedData[k], seedData[k].unsafeDoNotUse)
        IN /\ inflight[i].pc = "createDefect"
           /\ db' = s.db
           /\ nextId' = s.nextId
           /\ IF k < Len(seedData) THEN Goes(i, "createDefect", k + 1)
              ELSE Goes(i, "loadDefects", 1)
           /\ UNCHANGED <<syncQueue, state, now, nOps>>
           /\ UNCHANGED assetVars

\* await loadDefects()
InitLoadDefects ==
    \E i \in DOMAIN inflight :
        /\ inflight[i].pc = "loadDefects"
        /\ state' = loadDefects(Start).state
        /\ Goes(i, "loadSummary", 1)
        /\ UNCHANGED <<db, nextId, syncQueue, now, nOps>>
        /\ UNCHANGED assetVars

\* await loadSummary()
InitLoadSummary ==
    \E i \in DOMAIN inflight :
        /\ inflight[i].pc = "loadSummary"
        /\ state' = loadSummary(Start, now).state
        /\ Goes(i, "loadSettings", 1)
        /\ UNCHANGED <<db, nextId, syncQueue, now, nOps>>
        /\ UNCHANGED assetVars

\* await loadSettings() : the settings are not part of the state kept here.
InitLoadSettings ==
    \E i \in DOMAIN inflight :
        /\ inflight[i].pc = "loadSettings"
        /\ Goes(i, "refreshSyncQueue", 1)
        /\ UNCHANGED <<db, nextId, syncQueue, state, now, nOps>>
        /\ UNCHANGED assetVars

\* await refreshSyncQueue() : the init is over.
InitRefreshSyncQueue ==
    \E i \in DOMAIN inflight :
        /\ inflight[i].pc = "refreshSyncQueue"
        /\ state' = refreshSyncQueue(Start).state
        /\ inflight' = SubSeq(inflight, 1, i - 1)
                          \o SubSeq(inflight, i + 1, Len(inflight))
        /\ UNCHANGED <<db, nextId, syncQueue, now, nOps>>
        /\ UNCHANGED assetVars

NextSeed ==
    \/ MountProvider
    \/ GetAllDefects
    \/ SeedCreateDefect
    \/ InitLoadDefects
    \/ InitLoadSummary
    \/ InitLoadSettings
    \/ InitRefreshSyncQueue

SpecSeed == InitSeed /\ [][NextSeed]_vars

\* C27: once every init that was started is over, the store holds exactly the
\* seed defects, each once.
C27_SeededOnce ==
    nOps > 0 /\ inflight = <<>> => db = seedDefects(Fresh, 1).db

\* C28: a defect has closedAt, closedBy and closedByName set exactly when its
\* status is Closed.
C28_ClosedIffStamped ==
    \A id \in DOMAIN db :
        IF db[id].status = "Closed"
        THEN /\ db[id].closedAt # NoTime
             /\ db[id].closedBy # Undefined
             /\ db[id].closedByName # Undefined
        ELSE /\ db[id].closedAt = NoTime
             /\ db[id].closedBy = Undefined
             /\ db[id].closedByName = Undefined

\* In the records d every recurrenceCount is the number of records that name
\* the defect as their parent, and every parent is a record created before the
\* child (ids are assigned in creation order).
LinksAgree(d) ==
    \A p \in DOMAIN d :
        /\ d[p].recurrenceCount
              = Cardinality({c \in DOMAIN d : d[c].parentDefectId = p})
        /\ d[p].parentDefectId # NoId
              => d[p].parentDefectId \in DOMAIN d /\ d[p].parentDefectId < p

Replayable(q, id) ==
    \A k \in DOMAIN q :
        /\ q[k].id = id
        /\ q[k].operation \in {"updateDefect", "closeDefect", "reopenDefect",
                               "deleteDefect"}
        => \E m \in 1..(k - 1) : q[m] = [operation |-> "createDefect", id |-> id]

\* C30: when an operation has created a record, the queue it leaves can be
\* replayed for that record: a createDefect item for it precedes every other
\* item that names it.
C30_QueueReplayable ==
    [][\A id \in DOMAIN db' \ DOMAIN db : Replayable(syncQueue', id)]_vars

====
